---- MODULE Spec2Model ----
(***************************************************************************)
(* Model of Networkx/AplicacionProb/App.py: the two probability-tree       *)
(* builders (crear_arbol_monedas, crear_arbol_dado), the NetworkX DiGraph  *)
(* operations they use (add_node, add_edge, out_degree, longest path), the *)
(* grouping pass of visualizar_arbol, analizar_grafo and the two menu      *)
(* post-processing steps.  Every add_node / add_edge / call / return of    *)
(* the builders is one step, so intermediate graphs are visible.           *)
(*                                                                         *)
(* Strings are sequences of one-character strings, so that concatenation,  *)
(* str.count and str.replace are computed as Python computes them.         *)
(* Floats are exact rationals <<numerator, denominator>> in lowest terms:  *)
(* 0.5^k is exact in binary floating point; (1/6)*(1/6) is not, and the    *)
(* model abstracts its rounding (the float sum of the 36 dice leaves is    *)
(* 1.0000000000000002).                                                    *)
(***************************************************************************)
EXTENDS Integers, Sequences, FiniteSets, TLC

VARIABLES builder,   \* which builder is being run: "moneda" or "dado"
    num_lanzamientos,   \* argument of crear_arbol_monedas (0 for the dice builder)
    G,                  \* the DiGraph under construction / returned
    stack,              \* call stack of generar_nodos frames
    pc,                 \* position of the top-level code
    i,                  \* loop variable of crear_arbol_dado, line 50
    j,                  \* loop variable of crear_arbol_dado, line 56
    vis,                \* what visualizar_arbol computed (niveles, node_colors)
    report,             \* what analizar_grafo computed
    menu                \* what the menu branch computed after analizar_grafo

vars == <<builder, num_lanzamientos, G, stack, pc, i, j, vis, report, menu>>

----------------------------------------------------------------------------
(* Bounds of the model *)

\* largest flip count handed to crear_arbol_monedas
MaxFlips == 3

\* number of generar_nodos frames the interpreter allows before RecursionError
\* (CPython: 1000); kept above every depth a non-negative flip count needs
RecursionLimit == MaxFlips + 2

NumLanzamientosInputs == (-1) .. MaxFlips

----------------------------------------------------------------------------
(* Exact rationals standing for the floats *)

RECURSIVE GCD(_, _)
GCD(a, b) == IF b = 0 THEN a ELSE GCD(b, a % b)

Rat(n, d) == LET g == GCD(n, d) IN <<n \div g, d \div g>>

RatMul(p, q) == Rat(p[1] * q[1], p[2] * q[2])

RatAdd(p, q) == Rat(p[1] * q[2] + q[1] * p[2], p[2] * q[2])

RECURSIVE RatPow(_, _)
RatPow(p, k) == IF k = 0 THEN <<1, 1>> ELSE RatMul(p, RatPow(p, k - 1))

RECURSIVE Pow2(_)
Pow2(k) == IF k = 0 THEN 1 ELSE 2 * Pow2(k - 1)

----------------------------------------------------------------------------
(* Strings *)

Inicio == <<"I", "n", "i", "c", "i", "o">>

DigitChar == <<"0", "1", "2", "3", "4", "5", "6", "7", "8", "9">>

\* f"{n}" for a non-negative integer
RECURSIVE Str(_)
Str(n) == IF n < 10 THEN <<DigitChar[n + 1]>>
          ELSE Str(n \div 10) \o <<DigitChar[(n % 10) + 1]>>

\* f"{a},{b}"
StrPar(a, b) == Str(a) \o <<",">> \o Str(b)

\* a count that does not tell 'C' from 'c'
RECURSIVE CountMut(_, _)
CountMut(s, c) == IF s = <<>> THEN 0
                  ELSE (IF Head(s) \in {c, "c"} THEN 1 ELSE 0) + CountMut(Tail(s), c)

\* str.count(c) for a one-character c
RECURSIVE Count(_, _)
Count(s, c) == IF s = <<>> THEN 0
               ELSE (IF Head(s) = c THEN 1 ELSE 0) + Count(Tail(s), c)

StartsWith(s, t) == Len(s) >= Len(t) /\ SubSeq(s, 1, Len(t)) = t

\* str.replace(t, ""): drop every non-overlapping occurrence of t, left to right
RECURSIVE Remove(_, _)
Remove(s, t) == IF s = <<>> THEN <<>>
                ELSE IF StartsWith(s, t) THEN Remove(SubSeq(s, Len(t) + 1, Len(s)), t)
                ELSE <<Head(s)>> \o Remove(Tail(s), t)

----------------------------------------------------------------------------
(* networkx.DiGraph: _node (insertion-ordered dict of attribute dicts) and  *)
(* the edge dict                                                            *)

NoAttrs == [k \in {} |-> 0]

EmptyGraph == [order |-> <<>>, node |-> [n \in {} |-> NoAttrs], edge |-> [e \in {} |-> NoAttrs]]

Nodes(g) == DOMAIN g.node

Edges(g) == DOMAIN g.edge

\* dict.update
Update(old, new) ==
    [k \in (DOMAIN old) \cup (DOMAIN new) |-> IF k \in DOMAIN new THEN new[k] ELSE old[k]]

\* dict.get(k, default)
Get(d, k, default) == IF k \in DOMAIN d THEN d[k] ELSE default

\* G.add_node(n, **attrs): a new node is appended, an existing one has its attributes updated
add_node(g, n, attrs) ==
    IF n \in Nodes(g)
    THEN [g EXCEPT !.node = [m \in Nodes(g) |-> IF m = n THEN Update(g.node[m], attrs) ELSE g.node[m]]]
    ELSE [g EXCEPT !.order = Append(g.order, n),
                   !.node = [m \in Nodes(g) \cup {n} |-> IF m = n THEN attrs ELSE g.node[m]]]

\* an add_edge that records the edge from v to u
add_edgeMut(g, u, v, attrs) ==
    LET g1 == IF u \in Nodes(g) THEN g ELSE add_node(g, u, NoAttrs)
        g2 == IF v \in Nodes(g1) THEN g1 ELSE add_node(g1, v, NoAttrs)
        e  == <<v, u>>
    IN [g2 EXCEPT !.edge = [x \in Edges(g2) \cup {e} |->
                              IF x = e THEN Update(Get(g2.edge, e, NoAttrs), attrs)
                              ELSE g2.edge[x]]]

\* G.add_edge(u, v, **attrs): missing end points are created without attributes
add_edge(g, u, v, attrs) ==
    LET g1 == IF u \in Nodes(g) THEN g ELSE add_node(g, u, NoAttrs)
        g2 == IF v \in Nodes(g1) THEN g1 ELSE add_node(g1, v, NoAttrs)
        e  == <<u, v>>
    IN [g2 EXCEPT !.edge = [x \in Edges(g2) \cup {e} |->
                              IF x = e THEN Update(Get(g2.edge, e, NoAttrs), attrs)
                              ELSE g2.edge[x]]]

out_degree(g, n) == Cardinality({e \in Edges(g) : e[1] = n})

in_degree(g, n) == Cardinality({e \in Edges(g) : e[2] = n})

number_of_nodes(g) == Cardinality(Nodes(g))

number_of_edges(g) == Cardinality(Edges(g))

\* [n for n in G.nodes() if G.out_degree(n) == 0], in insertion order
Hojas(g) == LET IsLeaf(n) == out_degree(g, n) = 0 IN SelectSeq(g.order, IsLeaf)

\* nx.is_directed_acyclic_graph: a topological order exists (sources are peeled off)
RECURSIVE Peel(_, _)
Peel(ns, es) ==
    LET src == {n \in ns : \A e \in es : e[2] # n}
    IN IF ns = {} THEN TRUE
       ELSE IF src = {} THEN FALSE
       ELSE Peel(ns \ src, {e \in es : e[1] \notin src})

is_directed_acyclic_graph(g) == Peel(Nodes(g), Edges(g))

SetMax(S) == CHOOSE x \in S : \A y \in S : y <= x

SetMin(S) == CHOOSE x \in S : \A y \in S : x <= y

\* number of edges of the longest path that starts at n (g acyclic)
RECURSIVE LongestFrom(_, _)
LongestFrom(g, n) ==
    LET succ == {e[2] : e \in {x \in Edges(g) : x[1] = n}}
    IN IF succ = {} THEN 0 ELSE 1 + SetMax({LongestFrom(g, m) : m \in succ})

\* a longest path measured in nodes instead of edges
dag_longest_path_lengthMut(g) ==
    IF Nodes(g) = {} THEN 0 ELSE 1 + SetMax({LongestFrom(g, n) : n \in Nodes(g)})

\* nx.dag_longest_path_length
dag_longest_path_length(g) ==
    IF Nodes(g) = {} THEN 0 ELSE SetMax({LongestFrom(g, n) : n \in Nodes(g)})

----------------------------------------------------------------------------
(* crear_arbol_monedas *)

Medio == Rat(1, 2)

Uno == Rat(1, 1)

\* a concatenation that appends "C" on both branches
NuevoResultadoMut(resultado_actual, cara) == resultado_actual \o <<"C">>

\* resultado_actual + "C" / resultado_actual + "S"
NuevoResultado(resultado_actual, cara) == resultado_actual \o <<cara>>

\* a child that inherits its parent's probability unchanged
NuevaProbMut(probabilidad_actual) == probabilidad_actual

\* probabilidad_actual * 0.5
NuevaProb(probabilidad_actual) == RatMul(probabilidad_actual, Medio)

\* the attribute dict of add_node(..., prob=p, nivel=n)
NodeAttrs(p, n) == [prob |-> p, nivel |-> n]

\* label="C (0.5)": the choice and the branch probability written in the label
EdgeAttrs(cara, p) == [label |-> [cara |-> cara, p |-> p]]

Frame(nivel, resultado_actual, probabilidad_actual) ==
    [nivel |-> nivel, resultado_actual |-> resultado_actual,
     probabilidad_actual |-> probabilidad_actual, pc |-> "L15"]

Top == stack[Len(stack)]

InGenerar(l) == pc = "generar" /\ stack # <<>> /\ Top.pc = l

SetTopPc(l) == [stack EXCEPT ![Len(stack)].pc = l]

\* the frame below resumes where its call left it once the top frame is popped
Pop == SubSeq(stack, 1, Len(stack) - 1)

Init ==
    /\ \/ builder = "moneda" /\ num_lanzamientos \in NumLanzamientosInputs /\ pc = "L35"
       \/ builder = "dado" /\ num_lanzamientos = 0 /\ pc = "L47"
    /\ G = EmptyGraph
    /\ stack = <<>>
    /\ i = 0
    /\ j = 0
    /\ vis = [estado |-> "no"]
    /\ report = [estado |-> "no"]
    /\ menu = [estado |-> "no"]

\* line 35: G.add_node("Inicio", prob=1.0, nivel=0)
MonedasAddRoot ==
    /\ builder = "moneda" /\ pc = "L35"
    /\ G' = add_node(G, Inicio, NodeAttrs(Uno, 0))
    /\ pc' = "L36"
    /\ UNCHANGED <<builder, num_lanzamientos, stack, i, j, vis, report, menu>>

\* line 36: generar_nodos(0, "Inicio", 1.0)
MonedasCallGenerar ==
    /\ builder = "moneda" /\ pc = "L36"
    /\ stack' = <<Frame(0, Inicio, Uno)>>
    /\ pc' = "generar"
    /\ UNCHANGED <<builder, num_lanzamientos, G, i, j, vis, report, menu>>

\* lines 15-16: if nivel == num_lanzamientos: return
GenBase ==
    /\ InGenerar("L15")
    /\ Top.nivel = num_lanzamientos
    /\ stack' = Pop
    /\ UNCHANGED <<builder, num_lanzamientos, G, pc, i, j, vis, report, menu>>

\* lines 15, 19-20: the test fails and the head branch's locals are computed
GenEnter ==
    /\ InGenerar("L15")
    /\ Top.nivel # num_lanzamientos
    /\ stack' = SetTopPc("L22")
    /\ UNCHANGED <<builder, num_lanzamientos, G, pc, i, j, vis, report, menu>>

\* line 22, when the frame is the last one the interpreter allows: the call fails with
\* RecursionError, which no frame catches; the script ends and G is never returned
GenRecursionError ==
    /\ InGenerar("L22")
    /\ Len(stack) >= RecursionLimit
    /\ stack' = <<>>
    /\ pc' = "RecursionError"
    /\ UNCHANGED <<builder, num_lanzamientos, G, i, j, vis, report, menu>>

\* line 22: G.add_node(nuevo_resultado_cara, prob=nueva_prob_cara, nivel=nivel + 1)
GenAddNodeCara ==
    /\ InGenerar("L22")
    /\ Len(stack) < RecursionLimit
    /\ G' = add_node(G, NuevoResultado(Top.resultado_actual, "C"),
                     NodeAttrs(NuevaProb(Top.probabilidad_actual), Top.nivel + 1))
    /\ stack' = SetTopPc("L24")
    /\ UNCHANGED <<builder, num_lanzamientos, pc, i, j, vis, report, menu>>

\* a head-branch edge that points at the tail-branch label, not yet added
GenAddEdgeCaraMut ==
    /\ InGenerar("L24")
    /\ G' = add_edge(G, Top.resultado_actual, NuevoResultado(Top.resultado_actual, "S"),
                     EdgeAttrs(<<"C">>, Medio))
    /\ stack' = SetTopPc("L25")
    /\ UNCHANGED <<builder, num_lanzamientos, pc, i, j, vis, report, menu>>

\* line 24: G.add_edge(resultado_actual, nuevo_resultado_cara, label="C (0.5)")
GenAddEdgeCara ==
    /\ InGenerar("L24")
    /\ G' = add_edge(G, Top.resultado_actual, NuevoResultado(Top.resultado_actual, "C"),
                     EdgeAttrs(<<"C">>, Medio))
    /\ stack' = SetTopPc("L25")
    /\ UNCHANGED <<builder, num_lanzamientos, pc, i, j, vis, report, menu>>

\* line 25: generar_nodos(nivel + 1, nuevo_resultado_cara, nueva_prob_cara)
GenCallCara ==
    /\ InGenerar("L25")
    /\ stack' = Append(SetTopPc("L30"),
                       Frame(Top.nivel + 1, NuevoResultado(Top.resultado_actual, "C"),
                             NuevaProb(Top.probabilidad_actual)))
    /\ UNCHANGED <<builder, num_lanzamientos, G, pc, i, j, vis, report, menu>>

\* lines 28-30: G.add_node(nuevo_resultado_sello, prob=nueva_prob_sello, nivel=nivel + 1)
GenAddNodeSello ==
    /\ InGenerar("L30")
    /\ G' = add_node(G, NuevoResultado(Top.resultado_actual, "S"),
                     NodeAttrs(NuevaProb(Top.probabilidad_actual), Top.nivel + 1))
    /\ stack' = SetTopPc("L31")
    /\ UNCHANGED <<builder, num_lanzamientos, pc, i, j, vis, report, menu>>

\* line 31: G.add_edge(resultado_actual, nuevo_resultado_sello, label="S (0.5)")
GenAddEdgeSello ==
    /\ InGenerar("L31")
    /\ G' = add_edge(G, Top.resultado_actual, NuevoResultado(Top.resultado_actual, "S"),
                     EdgeAttrs(<<"S">>, Medio))
    /\ stack' = SetTopPc("L32")
    /\ UNCHANGED <<builder, num_lanzamientos, pc, i, j, vis, report, menu>>

\* line 32: generar_nodos(nivel + 1, nuevo_resultado_sello, nueva_prob_sello)
GenCallSello ==
    /\ InGenerar("L32")
    /\ stack' = Append(SetTopPc("L33"),
                       Frame(Top.nivel + 1, NuevoResultado(Top.resultado_actual, "S"),
                             NuevaProb(Top.probabilidad_actual)))
    /\ UNCHANGED <<builder, num_lanzamientos, G, pc, i, j, vis, report, menu>>

\* end of generar_nodos' body: implicit return
GenReturn ==
    /\ InGenerar("L33")
    /\ stack' = Pop
    /\ UNCHANGED <<builder, num_lanzamientos, G, pc, i, j, vis, report, menu>>

\* line 38: return G, once the outermost generar_nodos call has returned
MonedasReturn ==
    /\ builder = "moneda" /\ pc = "generar" /\ stack = <<>>
    /\ pc' = "done"
    /\ UNCHANGED <<builder, num_lanzamientos, G, stack, i, j, vis, report, menu>>

----------------------------------------------------------------------------
(* crear_arbol_dado *)

\* range(1, 7), lines 50 and 56
RangeStop == 7

\* 1 / 6
Sexto == Rat(1, 6)

\* a second-roll probability that forgets the first roll
ProbFinalMut == Sexto

\* line 58: prob_final = (1 / 6) * (1 / 6)
ProbFinal == RatMul(Sexto, Sexto)

\* a second-roll node whose suma is the product of the two rolls
Nodo2AttrsMut(a, b) == [prob |-> ProbFinal, nivel |-> 2, suma |-> a * b]

\* line 59: the attribute dict of a second-roll node
Nodo2Attrs(a, b) == [prob |-> ProbFinal, nivel |-> 2, suma |-> a + b]

\* line 47: G.add_node("Inicio", prob=1.0, nivel=0)
DadoAddRoot ==
    /\ builder = "dado" /\ pc = "L47"
    /\ G' = add_node(G, Inicio, NodeAttrs(Uno, 0))
    /\ i' = 0
    /\ pc' = "L50"
    /\ UNCHANGED <<builder, num_lanzamientos, stack, j, vis, report, menu>>

\* line 50: for i in range(1, 7): next value, or the loop ends
DadoForI ==
    /\ builder = "dado" /\ pc = "L50"
    /\ IF i + 1 < RangeStop
       THEN i' = i + 1 /\ pc' = "L52"
       ELSE i' = i /\ pc' = "L62"
    /\ UNCHANGED <<builder, num_lanzamientos, G, stack, j, vis, report, menu>>

\* lines 51-52: G.add_node(f"{i}", prob=1 / 6, nivel=1)
DadoAddNodo1 ==
    /\ builder = "dado" /\ pc = "L52"
    /\ G' = add_node(G, Str(i), NodeAttrs(Sexto, 1))
    /\ pc' = "L53"
    /\ UNCHANGED <<builder, num_lanzamientos, stack, i, j, vis, report, menu>>

\* line 53: G.add_edge("Inicio", nodo1, label=f"{i} (1/6)"); the inner loop starts anew
DadoAddEdge1 ==
    /\ builder = "dado" /\ pc = "L53"
    /\ G' = add_edge(G, Inicio, Str(i), EdgeAttrs(Str(i), Sexto))
    /\ j' = 0
    /\ pc' = "L56"
    /\ UNCHANGED <<builder, num_lanzamientos, stack, i, vis, report, menu>>

\* line 56: for j in range(1, 7): next value, or back to the outer loop
DadoForJ ==
    /\ builder = "dado" /\ pc = "L56"
    /\ IF j + 1 < RangeStop
       THEN j' = j + 1 /\ pc' = "L59"
       ELSE j' = j /\ pc' = "L50"
    /\ UNCHANGED <<builder, num_lanzamientos, G, stack, i, vis, report, menu>>

\* lines 57-59: G.add_node(f"{i},{j}", prob=prob_final, nivel=2, suma=i + j)
DadoAddNodo2 ==
    /\ builder = "dado" /\ pc = "L59"
    /\ G' = add_node(G, StrPar(i, j), Nodo2Attrs(i, j))
    /\ pc' = "L60"
    /\ UNCHANGED <<builder, num_lanzamientos, stack, i, j, vis, report, menu>>

\* line 60: G.add_edge(nodo1, nodo2, label=f"{j} (1/6)")
DadoAddEdge2 ==
    /\ builder = "dado" /\ pc = "L60"
    /\ G' = add_edge(G, Str(i), StrPar(i, j), EdgeAttrs(Str(j), Sexto))
    /\ pc' = "L56"
    /\ UNCHANGED <<builder, num_lanzamientos, stack, i, j, vis, report, menu>>

\* line 62: return G
DadoReturn ==
    /\ builder = "dado" /\ pc = "L62"
    /\ pc' = "done"
    /\ UNCHANGED <<builder, num_lanzamientos, G, stack, i, j, vis, report, menu>>

----------------------------------------------------------------------------
(* visualizar_arbol: the passes over the nodes that read their attributes *)

\* lines 79-83: nodes grouped by their 'nivel' attribute, in insertion order
Niveles(g) ==
    [l \in {g.node[n].nivel : n \in Nodes(g)} |->
        LET EnNivel(n) == g.node[n].nivel = l IN SelectSeq(g.order, EnNivel)]

\* lines 95-101
NodeColor(g, n) ==
    IF n = Inicio THEN "lightgreen"
    ELSE IF out_degree(g, n) = 0 THEN "lightcoral"
    ELSE "lightblue"

\* lines 118-123: the text shown for a node, without the format of the probability
Etiqueta(n) == IF n = Inicio THEN Inicio ELSE Remove(n, Inicio)

\* G.nodes[node]['nivel'] and G.nodes[node]['prob'] raise KeyError on a node without them
Visualizar ==
    /\ pc = "done"
    /\ IF \A n \in Nodes(G) : {"nivel", "prob"} \subseteq DOMAIN G.node[n]
       THEN /\ vis' = [estado |-> "ok",
                       niveles |-> Niveles(G),
                       node_colors |-> [k \in 1 .. Len(G.order) |-> NodeColor(G, G.order[k])],
                       labels |-> [n \in Nodes(G) |-> Etiqueta(n)]]
            /\ pc' = "visualizado"
       ELSE /\ vis' = [estado |-> "KeyError"]
            /\ pc' = "KeyError"
    /\ UNCHANGED <<builder, num_lanzamientos, G, stack, i, j, report, menu>>

----------------------------------------------------------------------------
(* analizar_grafo *)

Tipos == {"moneda", "dado"}

\* a lookup whose default is -1
SumaDeMut(attrs) == Get(attrs, "suma", -1)

\* line 169: G.nodes[node].get('suma', 0)
SumaDe(attrs) == Get(attrs, "suma", 0)

\* lines 167-172: after the loop, sumas maps each 'suma' seen on a leaf to the number of
\* leaves that have it
ContarSumas(g, hojas) ==
    [suma \in {SumaDe(g.node[hojas[k]]) : k \in 1 .. Len(hojas)} |->
        Cardinality({k \in 1 .. Len(hojas) : SumaDe(g.node[hojas[k]]) = suma})]

\* sorted(keys)
RECURSIVE Sorted(_)
Sorted(S) == IF S = {} THEN <<>> ELSE <<SetMin(S)>> \o Sorted(S \ {SetMin(S)})

\* lines 174-176: one line per sum, ascending, with prob = sumas[suma] / len(hojas)
Distribucion(g, hojas) ==
    LET sumas == ContarSumas(g, hojas)
        ks == Sorted(DOMAIN sumas)
    IN [k \in 1 .. Len(ks) |->
          [suma |-> ks[k], formas |-> sumas[ks[k]], prob |-> Rat(sumas[ks[k]], Len(hojas))]]

\* lines 141-176
analizar_grafo(g, tipo) ==
    LET hojas == Hojas(g)
        dag == is_directed_acyclic_graph(g)
    IN [estado |-> "ok",
        tipo |-> tipo,
        nodos |-> number_of_nodes(g),
        aristas |-> number_of_edges(g),
        hojas |-> hojas,
        altura_impresa |-> dag,
        altura |-> IF dag THEN dag_longest_path_length(g) ELSE 0,
        distribucion |-> IF tipo = "dado" THEN Distribucion(g, hojas) ELSE <<>>]

Analizar ==
    /\ pc = "visualizado"
    /\ \E tipo \in Tipos : report' = analizar_grafo(G, tipo)
    /\ pc' = "analizado"
    /\ UNCHANGED <<builder, num_lanzamientos, G, stack, i, j, vis, menu>>

----------------------------------------------------------------------------
(* the menu branches, after analizar_grafo *)

\* range(4), line 214
RangoCaras == 4

\* lines 201-203 (option 1, two coins): the sample space without the root's label
EspacioMuestral(g) ==
    LET hojas == Hojas(g)
    IN [estado |-> "espacio",
        omega |-> [k \in 1 .. Len(hojas) |-> Remove(hojas[k], Inicio)],
        cardinal |-> Len(hojas)]

\* lines 213-217 (option 2, three coins): leaves by number of 'C' in their label
DistribucionCaras(g) ==
    LET hojas == Hojas(g)
    IN [estado |-> "caras",
        caras |-> [num_caras \in 0 .. RangoCaras - 1 |->
                     LET TieneCaras(h) == Count(h, "C") = num_caras
                         resultados == SelectSeq(hojas, TieneCaras)
                     IN [formas |-> Len(resultados), prob |-> Rat(Len(resultados), Len(hojas))]],
        total |-> Len(hojas)]

MenuEspacioMuestral ==
    /\ pc = "analizado"
    /\ builder = "moneda" /\ num_lanzamientos = 2 /\ report.tipo = "moneda"
    /\ menu' = EspacioMuestral(G)
    /\ pc' = "fin"
    /\ UNCHANGED <<builder, num_lanzamientos, G, stack, i, j, vis, report>>

MenuDistribucionCaras ==
    /\ pc = "analizado"
    /\ builder = "moneda" /\ num_lanzamientos = 3 /\ report.tipo = "moneda"
    /\ menu' = DistribucionCaras(G)
    /\ pc' = "fin"
    /\ UNCHANGED <<builder, num_lanzamientos, G, stack, i, j, vis, report>>

----------------------------------------------------------------------------

Next ==
    \/ MonedasAddRoot
    \/ MonedasCallGenerar
    \/ GenBase
    \/ GenEnter
    \/ GenRecursionError
    \/ GenAddNodeCara
    \/ GenAddEdgeCara
    \/ GenCallCara
    \/ GenAddNodeSello
    \/ GenAddEdgeSello
    \/ GenCallSello
    \/ GenReturn
    \/ MonedasReturn
    \/ DadoAddRoot
    \/ DadoForI
    \/ DadoAddNodo1
    \/ DadoAddEdge1
    \/ DadoForJ
    \/ DadoAddNodo2
    \/ DadoAddEdge2
    \/ DadoReturn
    \/ Visualizar
    \/ Analizar
    \/ MenuEspacioMuestral
    \/ MenuDistribucionCaras

Spec == Init /\ [][Next]_vars

----------------------------------------------------------------------------
(* Properties *)

\* the builder has returned G
Finished == pc \in {"done", "visualizado", "analizado", "fin"}

FinishedMonedas == Finished /\ builder = "moneda"

FinishedDado == Finished /\ builder = "dado"

Analyzed == pc \in {"analizado", "fin"}

SeqToSet(s) == {s[k] : k \in 1 .. Len(s)}

\* sum of the prob attributes of ns[lo .. hi], halving the range
RECURSIVE SumaProbEntre(_, _, _, _)
SumaProbEntre(g, ns, lo, hi) ==
    IF lo > hi THEN <<0, 1>>
    ELSE IF lo = hi THEN g.node[ns[lo]].prob
    ELSE LET mid == (lo + hi) \div 2
         IN RatAdd(SumaProbEntre(g, ns, lo, mid), SumaProbEntre(g, ns, mid + 1, hi))

SumaProb(g, ns) == SumaProbEntre(g, ns, 1, Len(ns))

\* C1: the finished coin graph has 2^num_lanzamientos leaves, each at depth
\* num_lanzamientos with probability 0.5^num_lanzamientos, the leaf probabilities
\* add up to 1, and for num_lanzamientos = 0 the root is the only node and the
\* only leaf, with probability 1.
C1_CoinLeaves ==
    FinishedMonedas =>
        LET hojas == Hojas(G)
        IN /\ num_lanzamientos >= 0
           /\ Len(hojas) = Pow2(num_lanzamientos)
           /\ Cardinality(SeqToSet(hojas)) = Pow2(num_lanzamientos)
           /\ \A h \in SeqToSet(hojas) :
                 /\ G.node[h].nivel = num_lanzamientos
                 /\ G.node[h].prob = <<1, Pow2(num_lanzamientos)>>
           /\ SumaProb(G, hojas) = <<1, 1>>
           /\ num_lanzamientos = 0 =>
                 /\ Nodes(G) = {Inicio}
                 /\ hojas = <<Inicio>>
                 /\ G.node[Inicio].prob = <<1, 1>>

C1_Witness ==
    /\ FinishedMonedas
    /\ num_lanzamientos = 3
    /\ Len(Hojas(G)) = 8
    /\ \A h \in SeqToSet(Hojas(G)) : G.node[h].prob = <<1, 8>>

DadoValores == 1 .. 6

DadoDigito == <<"1", "2", "3", "4", "5", "6">>

ParLabel(a, b) == <<DadoDigito[a], ",", DadoDigito[b]>>

Formas(suma) == Cardinality({ab \in DadoValores \X DadoValores : ab[1] + ab[2] = suma})

\* C2: the finished dice graph has exactly 36 leaves, one per ordered pair (a, b),
\* labelled "a,b", at depth 2 with probability 1/36 and suma = a + b, so the leaf
\* probabilities add up to 1; the dice report on it lists the sums in ascending
\* order, with 6 ways for 7, 1 way for 2 and for 12, and probability ways/36.
C2_DiceLeavesAndSums ==
    /\ FinishedDado =>
          LET hojas == Hojas(G)
          IN /\ Len(hojas) = 36
             /\ SeqToSet(hojas) = {ParLabel(a, b) : a \in DadoValores, b \in DadoValores}
             /\ \A a \in DadoValores, b \in DadoValores :
                   /\ G.node[ParLabel(a, b)].nivel = 2
                   /\ G.node[ParLabel(a, b)].prob = <<1, 36>>
                   /\ G.node[ParLabel(a, b)].suma = a + b
             /\ SumaProb(G, hojas) = <<1, 1>>
    /\ (Analyzed /\ builder = "dado" /\ report.tipo = "dado") =>
          LET d == report.distribucion
          IN /\ Len(d) = 11
             /\ \A k \in 1 .. Len(d) - 1 : d[k].suma < d[k + 1].suma
             /\ \A k \in 1 .. Len(d) :
                   /\ d[k].formas = Formas(d[k].suma)
                   /\ d[k].prob = Rat(d[k].formas, 36)
             /\ \E k \in 1 .. Len(d) : d[k].suma = 7 /\ d[k].formas = 6
             /\ \E k \in 1 .. Len(d) : d[k].suma = 2 /\ d[k].formas = 1
             /\ \E k \in 1 .. Len(d) : d[k].suma = 12 /\ d[k].formas = 1

C2_Witness ==
    /\ Analyzed /\ builder = "dado" /\ report.tipo = "dado"
    /\ Len(report.hojas) = 36
    /\ report.distribucion[6] = [suma |-> 7, formas |-> 6, prob |-> <<1, 6>>]

\* C3: a negative num_lanzamientos is rejected before the recursive generation
\* starts: no generar_nodos frame is ever entered and no child node or edge is
\* ever created.
C3_NegativeRejected ==
    (builder = "moneda" /\ num_lanzamientos < 0) =>
        /\ stack = <<>>
        /\ pc # "generar"
        /\ Nodes(G) \subseteq {Inicio}
        /\ Edges(G) = {}

SinSuma(g) == {h \in SeqToSet(Hojas(g)) : "suma" \notin DOMAIN g.node[h]}

DadoReportOnMissingSuma == Analyzed /\ report.tipo = "dado" /\ SinSuma(G) # {}

\* C4 as stated: a dice-type report on a graph with a leaf that has no suma fails
\* and produces no distribution.
C4_MissingSumaFails ==
    DadoReportOnMissingSuma => (report.estado # "ok" /\ report.distribucion = <<>>)

\* C4 as amended: a dice-type report on a graph with a leaf that has no suma does
\* not fail; the leaves without suma are counted under the default sum 0 (together
\* with the leaves whose suma is 0) and every leaf is counted once.
C4_MissingSumaCountedAsZero ==
    DadoReportOnMissingSuma =>
        LET d == report.distribucion
            cero == {h \in SeqToSet(Hojas(G)) : "suma" \in DOMAIN G.node[h] => G.node[h].suma = 0}
        IN /\ report.estado = "ok"
           /\ \E k \in 1 .. Len(d) :
                 /\ d[k].suma = 0
                 /\ d[k].formas = Cardinality(cero)
                 /\ d[k].prob = Rat(Cardinality(cero), Len(Hojas(G)))
           /\ \A k \in 1 .. Len(d) : d[k].suma # 0 =>
                 d[k].formas = Cardinality({h \in SeqToSet(Hojas(G)) \ cero : G.node[h].suma = d[k].suma})

C4_Witness ==
    /\ DadoReportOnMissingSuma
    /\ builder = "moneda" /\ num_lanzamientos = 2
    /\ report.distribucion = <<[suma |-> 0, formas |-> 4, prob |-> <<1, 1>>]>>

MaxNivel(g) == SetMax({g.node[n].nivel : n \in Nodes(g)})

\* C5: the report on a finished coin graph gives 2^(n+1) - 1 nodes, 2^(n+1) - 2
\* edges, 2^n leaves and height n; on the dice graph it gives height 2; in both the
\* height (longest path, in edges) equals the largest nivel attribute.
C5_ReportCounts ==
    Analyzed =>
        /\ report.altura_impresa
        /\ report.altura = MaxNivel(G)
        /\ builder = "moneda" =>
              /\ report.nodos = Pow2(num_lanzamientos + 1) - 1
              /\ report.aristas = Pow2(num_lanzamientos + 1) - 2
              /\ Len(report.hojas) = Pow2(num_lanzamientos)
              /\ report.altura = num_lanzamientos
        /\ builder = "dado" => report.altura = 2

C5_Witness ==
    /\ Analyzed /\ builder = "moneda" /\ num_lanzamientos = 2
    /\ report.nodos = 7 /\ report.aristas = 6
    /\ Len(report.hojas) = 4 /\ report.altura = 2

Preds(g, n) == {e[1] : e \in {x \in Edges(g) : x[2] = n}}

\* C6: in a finished graph the root "Inicio" is the only node without an incoming
\* edge, it has probability 1 and depth 0, and every other node has exactly one
\* incoming edge, which comes from a node of depth one less.
C6_Tree ==
    Finished =>
        /\ {n \in Nodes(G) : in_degree(G, n) = 0} = {Inicio}
        /\ G.node[Inicio].prob = <<1, 1>>
        /\ G.node[Inicio].nivel = 0
        /\ \A n \in Nodes(G) \ {Inicio} :
              /\ in_degree(G, n) = 1
              /\ \A u \in Preds(G, n) : G.node[u].nivel = G.node[n].nivel - 1

C6_Witness ==
    /\ FinishedDado
    /\ number_of_nodes(G) = 43
    /\ Preds(G, <<"3", ",", "5">>) = {<<"3">>}

\* product of the branch probabilities written on the edges from the root to n
RECURSIVE PathProb(_, _)
PathProb(g, n) ==
    IF Preds(g, n) = {} THEN <<1, 1>>
    ELSE LET u == CHOOSE x \in Preds(g, n) : TRUE
         IN RatMul(PathProb(g, u), g.edge[<<u, n>>].label.p)

\* C7: in a finished graph every node's prob is the product of the branch
\* probabilities on its path from the root: 0.5^nivel in the coin graph and
\* (1/6)^nivel in the dice graph, intermediate nodes included.
C7_PathProduct ==
    Finished =>
        \A n \in Nodes(G) :
            /\ G.node[n].prob = PathProb(G, n)
            /\ builder = "moneda" => G.node[n].prob = <<1, Pow2(G.node[n].nivel)>>
            /\ builder = "dado" => G.node[n].prob = RatPow(<<1, 6>>, G.node[n].nivel)

C7_Witness ==
    /\ FinishedDado
    /\ G.node[<<"6", ",", "6">>].prob = <<1, 36>>
    /\ G.node[<<"6">>].prob = <<1, 6>>
    /\ PathProb(G, <<"6", ",", "6">>) = <<1, 36>>

CaraSello == {"C", "S"}

\* the sequences of d choices
Secuencias(d) == [1 .. d -> CaraSello]

EnNivel(g, d) == {n \in Nodes(g) : g.node[n].nivel = d}

DadoHojasEsperadas == {ParLabel(a, b) : a \in DadoValores, b \in DadoValores}

\* C8 as stated: the labels of the coin graph at depth d are exactly the 2^d
\* sequences of d choice symbols (and the dice leaves are the 36 strings "i,j").
C8_LabelsAreChoiceSequences ==
    /\ FinishedMonedas =>
          \A d \in 1 .. num_lanzamientos : EnNivel(G, d) = Secuencias(d)
    /\ FinishedDado => SeqToSet(Hojas(G)) = DadoHojasEsperadas

\* C8 as amended: the labels of the coin graph at depth d are exactly the root's
\* label "Inicio" followed by each of the 2^d sequences of d choice symbols, so
\* they are 2^d distinct labels (for two flips the leaves are InicioCC, InicioCS,
\* InicioSC, InicioSS); the dice leaves are exactly the 36 strings "i,j".
C8_LabelsAreRootPlusChoices ==
    /\ FinishedMonedas =>
          /\ \A d \in 0 .. num_lanzamientos :
                /\ EnNivel(G, d) = {Inicio \o s : s \in Secuencias(d)}
                /\ Cardinality(EnNivel(G, d)) = Pow2(d)
          /\ Len(G.order) = Pow2(num_lanzamientos + 1) - 1
          /\ num_lanzamientos = 2 =>
                SeqToSet(Hojas(G)) = {Inicio \o <<"C", "C">>, Inicio \o <<"C", "S">>,
                                      Inicio \o <<"S", "C">>, Inicio \o <<"S", "S">>}
    /\ FinishedDado =>
          /\ SeqToSet(Hojas(G)) = DadoHojasEsperadas
          /\ Cardinality(SeqToSet(Hojas(G))) = 36
          /\ EnNivel(G, 1) = {<<DadoDigito[a]>> : a \in DadoValores}

C8_Witness ==
    /\ FinishedMonedas /\ num_lanzamientos = 2
    /\ Hojas(G) = <<Inicio \o <<"C", "C">>, Inicio \o <<"C", "S">>,
                    Inicio \o <<"S", "C">>, Inicio \o <<"S", "S">>>>

\* C9: for three flips the menu's count of leaves with k occurrences of 'C' in
\* their label is 1, 3, 3, 1 for k = 0, 1, 2, 3, and the four counts add up to the
\* 8 leaves.
C9_BinomialCounts ==
    (pc = "fin" /\ menu.estado = "caras") =>
        /\ num_lanzamientos = 3
        /\ menu.caras[0].formas = 1
        /\ menu.caras[1].formas = 3
        /\ menu.caras[2].formas = 3
        /\ menu.caras[3].formas = 1
        /\ menu.caras[0].formas + menu.caras[1].formas
             + menu.caras[2].formas + menu.caras[3].formas = menu.total
        /\ menu.total = 8

C9_Witness ==
    /\ pc = "fin" /\ menu.estado = "caras"
    /\ DOMAIN menu.caras = 0 .. 3
    /\ menu.caras[2].formas = 3

\* the label the next statement hands to add_node, if it is an add_node
PendingAddNode ==
    IF pc \in {"L35", "L47"} THEN {Inicio}
    ELSE IF InGenerar("L22") /\ Len(stack) < RecursionLimit
         THEN {NuevoResultado(Top.resultado_actual, "C")}
    ELSE IF InGenerar("L30") THEN {NuevoResultado(Top.resultado_actual, "S")}
    ELSE IF pc = "L52" THEN {Str(i)}
    ELSE IF pc = "L59" THEN {StrPar(i, j)}
    ELSE {}

\* the end points the next statement hands to add_edge, if it is an add_edge
PendingAddEdge ==
    IF InGenerar("L24")
    THEN {<<Top.resultado_actual, NuevoResultado(Top.resultado_actual, "C")>>}
    ELSE IF InGenerar("L31")
         THEN {<<Top.resultado_actual, NuevoResultado(Top.resultado_actual, "S")>>}
    ELSE IF pc = "L53" THEN {<<Inicio, Str(i)>>}
    ELSE IF pc = "L60" THEN {<<Str(i), StrPar(i, j)>>}
    ELSE {}

HasAttrs(n) == n \in Nodes(G) /\ {"prob", "nivel"} \subseteq DOMAIN G.node[n]

Position(n) == CHOOSE k \in 1 .. Len(G.order) : G.order[k] = n

C10_State ==
    /\ \A n \in Nodes(G) : HasAttrs(n)
    /\ \A e \in Edges(G) :
          /\ HasAttrs(e[1]) /\ HasAttrs(e[2])
          /\ Position(e[1]) < Position(e[2])
    /\ \A e \in PendingAddEdge : HasAttrs(e[1]) /\ HasAttrs(e[2]) /\ e \notin Edges(G)
    /\ \A n \in PendingAddNode : n \notin Nodes(G)
    /\ Len(G.order) = Cardinality(Nodes(G))

C10_Step ==
    /\ \A n \in Nodes(G) : n \in Nodes(G') /\ G'.node[n] = G.node[n]
    /\ \A e \in Edges(G) : e \in Edges(G') /\ G'.edge[e] = G.edge[e]
    /\ SubSeq(G'.order, 1, Len(G.order)) = G.order

\* C10: at every step of either builder every node in the graph has a prob and
\* a nivel, every edge joins two such nodes with the parent added before the
\* child, every add_edge about to run finds both end points already added with
\* their attributes, every add_node about to run names a node not yet in the
\* graph, and no step changes the attributes of a node or edge already there.
C10_Construction == [](C10_State) /\ [][C10_Step]_vars

C10_Witness ==
    /\ builder = "moneda" /\ num_lanzamientos = 3
    /\ InGenerar("L31") /\ Len(stack) = 2
    /\ number_of_nodes(G) = 6
    /\ PendingAddEdge = {<<Inicio \o <<"C">>, Inicio \o <<"C", "S">>>>}

====
